---- MODULE Spec2Model ----
(***************************************************************************)
(* Model of the sketch TUI runtime (src/src/lib.rs, src/src/msg.rs), of   *)
(* its text styling (src/src/style.rs) and of the examples Counter        *)
(* (src/examples/counter.rs) and text_input (src/examples/text_input.rs).  *)
(*                                                                         *)
(* Two threads share one std::sync::mpsc channel: the driver (App::run)    *)
(* and the crossterm event thread (spawn_crossterm_event_thread).  Holders *)
(* of a cloned Sender (App::sender) are a third, external producer.  The   *)
(* terminal is a pair of mode flags plus the list of frames written to it. *)
(* Every terminal operation may fail, every consumer callback (startup,    *)
(* update, view) may panic, and the consumer's update may return any       *)
(* follow-up message.                                                      *)
(***************************************************************************)
EXTENDS Integers, Sequences, FiniteSets, TLC

\* ------------------------------------------------------------------ bounds
MaxEvents == 1      \* raw terminal events the backend delivers
MaxExt    == 1      \* messages sent through clones of the Sender
MaxChain  == 2      \* follow-up messages one chain may contain
MaxKeys   == 3      \* raw terminal events delivered to the Counter example
MaxRuns   == 2      \* Apps one process builds and runs, one after the other
MaxCols   == 3      \* width of the terminal Style::render is called on
MaxText   == 3      \* characters typed into the text_input example
MaxSegs   == 3      \* characters and escape sequences one text is made of

VARIABLES
    pc,           \* position of the driver thread inside App::run
    result,       \* what run returned: "none" (not yet), "Ok", "Err"
    model,        \* self.model
    m,            \* the local `m: Option<Msg>` of the chain loop
    chan,         \* content of the mpsc channel, oldest first
    chanOpen,     \* the Receiver (owned by the App) is still alive
    rawMode,      \* terminal: raw input mode is on
    altScreen,    \* terminal: alternate screen is active
    screen,       \* the frame written last, with the modes it was written in
    drvOps,       \* terminal operations issued by the driver's last step
    evPc,         \* event thread: "unspawned", "read", or how it died:
                  \* "read_failed", "send_failed"
    evCount,      \* raw events read so far
    extCount,     \* messages sent by Sender clones so far
    pasteFeature, \* cargo feature `paste` (fixed per build)
    chains,       \* the consumer's update may return follow-up messages
    consumer,     \* the implementation of Model the App was built with:
                  \* "any" (every behaviour the trait allows) or "counter"
    hookDepth,    \* number of hook wrappers installed by set_panic_hook
    hookLog,      \* what the panic hook did on the latest panic, in order
    \* History of the run in progress (cleared when the run ends):
    sent,         \* every message accepted by the channel
    heads,        \* every message taken by recv()
    firstUpd,     \* the first message passed to Model::update
    lastUpd,      \* the latest call of Model::update
    firstFrame,   \* the first frame written to the terminal
    renders,      \* number of frames written
    chainLen,     \* follow-ups returned so far in the current chain
    evLog,        \* every raw event read by the event thread
    \* The pure functions of the library, applied outside of any run:
    arg,          \* the function and the input it is applied to
    ret           \* what it returned (None: not applied yet)

runVars  == << model, m, chan, chanOpen >>
termVars == << rawMode, altScreen >>
envVars  == << evCount, extCount, pasteFeature, chains, consumer, arg, ret >>
histVars == << sent, heads, firstUpd, lastUpd, firstFrame, renders, chainLen,
              evLog >>

vars == << pc, result, runVars, termVars, screen, drvOps, evPc, envVars,
           hookDepth, hookLog, histVars >>

\* ------------------------------------------------------------ Option<T>
None == << >>
Some(x) == << x >>

\* ---------------------------------------------------------------- Msg
\* Msg::new boxes the payload as dyn Any: the envelope is the payload's
\* concrete type together with its value.  `src` is history only (who
\* created the envelope); no operation of the program reads it.
MsgNew(type, data, src) == [type |-> type, data |-> data, src |-> src]

MsgIs_Always(msg, type) == TRUE

\* Msg::is::<M>() compares the payload's concrete type with M.
MsgIs(msg, type) == msg.type = type

MsgCast_Any(msg, type) == Some(msg.data)

\* Msg::cast::<M>() is downcast_ref: a reference to the payload when its
\* concrete type is M, None otherwise.
MsgCast(msg, type) == IF msg.type = type THEN Some(msg.data) ELSE None

\* ------------------------------------------------------- terminal events
\* crossterm::event::Event, one value per variant.
RawEvents ==
    { [class |-> "Key", data |-> "Enter"],
      [class |-> "Mouse", data |-> "Down"],
      [class |-> "Resize", data |-> "80x24"],
      [class |-> "FocusGained", data |-> ""],
      [class |-> "FocusLost", data |-> ""],
      [class |-> "Paste", data |-> "text"] }

\* The events the backend delivers in this model: one of a class that is
\* always translated and one of the class the `paste` feature governs.
Delivered == { e \in RawEvents : e.class \in { "Key", "Paste" } }

Translate_PasteKept(e, paste) == Some(MsgNew(e.class, e.data, "term"))

\* The match of the event thread: Some(msg) for a translated event, None
\* for the `continue` arm of a paste event when the feature is off.
Translate(e, paste) ==
    CASE e.class = "FocusGained" -> Some(MsgNew("Focus", "Gained", "term"))
      [] e.class = "FocusLost"   -> Some(MsgNew("Focus", "Lost", "term"))
      [] e.class = "Key"         -> Some(MsgNew("Key", e.data, "term"))
      [] e.class = "Mouse"       -> Some(MsgNew("Mouse", e.data, "term"))
      [] e.class = "Resize"      -> Some(MsgNew("Resize", e.data, "term"))
      [] e.class = "Paste"       ->
            IF paste THEN Some(MsgNew("Paste", e.data, "term")) ELSE None

\* ------------------------------------------------------------- consumer
\* The consumer is any implementation of the Model trait.  Its state is
\* taken to be the number of updates applied to it, so that every update
\* yields a model, and a view, that differs from all earlier ones.
InitModel == 0

\* Model::startup: it returns nothing, a custom message or Quit.
StartupResults ==
    { None, Some(MsgNew("Custom", "Tick", "startup")),
      Some(MsgNew("Quit", "", "startup")) }

\* Model::update: it returns the next model and any follow-up; a consumer
\* that chains returns at most MaxChain follow-ups in a row.
FollowUps ==
    { None, Some(MsgNew("Custom", "Next", "update")),
      Some(MsgNew("Quit", "", "update")) }

UpdateResults(mdl, len, mayChain) ==
    { [model |-> mdl + 1, out |-> o] :
        o \in { f \in FollowUps : f = None \/ (mayChain /\ len < MaxChain) } }

\* Model::view: the text of a model, one character per element.
View(mdl) == << "n", "=", ToString(mdl), "\n" >>

\* Messages a holder of a cloned Sender may send.
ExtMsgs == { MsgNew("Custom", "Job", "ext"), MsgNew("Quit", "", "ext") }

\* --------------------------------------------------------------- channel
ChanSend_Drop(ch, msg) == ch

\* Sender::send on std::sync::mpsc: the message joins the end of the queue.
ChanSend(ch, msg) == Append(ch, msg)

ChanRecv_Newest(ch) == ch[Len(ch)]

SendFails_Always(open) == TRUE

SendFails_Never(open) == FALSE

\* Sender::send returns Err exactly when the Receiver has been dropped.
SendFails(open) == ~open

\* Receiver::recv: the oldest message of the queue.
ChanRecv(ch) == Head(ch)

\* ----------------------------------------------------------------- style
\* A string is a sequence of characters; "ESC" stands for the one
\* character \x1b.
\* crossterm's named colours, each with its number in the 16-colour
\* palette.
AnsiIndex ==
    [Black |-> 0, DarkRed |-> 1, DarkGreen |-> 2, DarkYellow |-> 3,
     DarkBlue |-> 4, DarkMagenta |-> 5, DarkCyan |-> 6, Grey |-> 7,
     DarkGrey |-> 8, Red |-> 9, Green |-> 10, Yellow |-> 11, Blue |-> 12,
     Magenta |-> 13, Cyan |-> 14, White |-> 15]

Colors == DOMAIN AnsiIndex

\* usize::to_string, and the `{}` of write! for a number.
RECURSIVE Digits(_)
Digits(n) ==
    IF n < 10 THEN << ToString(n) >>
    ELSE Digits(n \div 10) \o << ToString(n % 10) >>

\* The escape sequence "\x1b[<code>m".
Sgr(code) == << "ESC", "[" >> \o code \o << "m" >>

\* Style::write_fg_color: 30-37 for the dark colours, 90-97 for the bright.
FgCode(color) ==
    LET n == AnsiIndex[color] IN Sgr(Digits(IF n < 8 THEN 30 + n ELSE 82 + n))

\* Style::write_bg_color: 40-47 and 100-107.
BgCode(color) ==
    LET n == AnsiIndex[color] IN Sgr(Digits(IF n < 8 THEN 40 + n ELSE 92 + n))

\* Style::write_underline_color: 58;5;<palette number>.
UnderlineCode(color) ==
    Sgr(<< "5", "8", ";", "5", ";" >> \o Digits(AnsiIndex[color]))

\* Style::new.
StyleNew ==
    [fg |-> None, bg |-> None, bold |-> FALSE, dim |-> FALSE,
     italic |-> FALSE, underline |-> FALSE, underline_color |-> None,
     blink |-> None, reverse |-> FALSE, crossed_out |-> FALSE,
     align |-> "Left"]

\* Style::fg and Style::bg.
StyleFg(style, color) == [style EXCEPT !.fg = Some(color)]

StyleBg(style, color) == [style EXCEPT !.bg = Some(color)]

\* The `fg` arm of style_method! (Style::yellow, ...).
StyleMethodFg(style, color) == [style EXCEPT !.fg = Some(color)]

\* The `bg` arm of style_method! (Style::on_black ... Style::on_grey): its
\* body assigns self.fg.
StyleMethodBg(style, color) == [style EXCEPT !.fg = Some(color)]

\* The four-argument arm of style_method! (Style::bold, Style::center, ...).
StyleMethodField(style, field, value) == [style EXCEPT ![field] = value]

\* visible_length: the loop over input.chars() with its two locals.
RECURSIVE VisibleLengthFrom(_, _, _)
VisibleLengthFrom(text, in_escape_code, length) ==
    IF text = << >> THEN length
    ELSE LET c == Head(text) IN
         IF c = "ESC" THEN VisibleLengthFrom(Tail(text), TRUE, length)
         ELSE IF c = "m" /\ in_escape_code
              THEN VisibleLengthFrom(Tail(text), FALSE, length)
         ELSE IF ~in_escape_code
              THEN VisibleLengthFrom(Tail(text), in_escape_code, length + 1)
         ELSE VisibleLengthFrom(Tail(text), in_escape_code, length)

VisibleLength(text) == VisibleLengthFrom(text, FALSE, 0)

\* " ".repeat(n).
RECURSIVE Spaces(_)
Spaces(n) == IF n = 0 THEN << >> ELSE << " " >> \o Spaces(n - 1)

\* Style::render, lines 206-238: the codes of the attributes and colours.
StylePrefix(style) ==
    (IF style.bold THEN Sgr(<< "1" >>) ELSE << >>)
    \o (IF style.dim THEN Sgr(<< "2" >>) ELSE << >>)
    \o (IF style.italic THEN Sgr(<< "3" >>) ELSE << >>)
    \o (IF style.underline THEN Sgr(<< "4" >>) ELSE << >>)
    \o (IF style.blink = None THEN << >>
        ELSE IF style.blink[1] = "Slow" THEN Sgr(<< "5" >>)
        ELSE Sgr(<< "6" >>))
    \o (IF style.reverse THEN Sgr(<< "7" >>) ELSE << >>)
    \o (IF style.crossed_out THEN Sgr(<< "9" >>) ELSE << >>)
    \o (IF style.fg = None THEN << >> ELSE FgCode(style.fg[1]))
    \o (IF style.bg = None THEN << >> ELSE BgCode(style.bg[1]))
    \o (IF style.underline_color = None THEN << >>
        ELSE UnderlineCode(style.underline_color[1]))

\* Style::render, lines 243-247: the number of spaces put before the text,
\* a usize (negative here: the subtraction underflowed).
StylePad(style, cols, len) ==
    CASE style.align = "Left"   -> 0
      [] style.align = "Center" -> (cols \div 2) - (len \div 2)
      [] style.align = "Right"  -> cols - len

\* How Style::render ends: "none" (it returns), or the panic it raises when
\* the padding underflows.  A build with overflow checks panics at the
\* subtraction; one without wraps to a count near usize::MAX, which
\* " ".repeat cannot allocate.
RenderFault(style, text, cols, checks) ==
    IF StylePad(style, cols, VisibleLength(text)) >= 0 THEN "none"
    ELSE IF checks THEN "attempt to subtract with overflow"
    ELSE "capacity overflow"

\* Style::render on a terminal `cols` wide: Some(string), or None when the
\* padding underflowed and no string is returned.
StyleRender(style, text, cols) ==
    LET pad == StylePad(style, cols, VisibleLength(text)) IN
    IF pad < 0 THEN None
    ELSE Some(StylePrefix(style) \o Spaces(pad) \o text \o Sgr(<< "0" >>))

\* --------------------------------------------------------------- Counter
\* examples/counter.rs.  The width terminal_size() reports to its view.
CounterCols == 80

\* COUNTER_STYLE = Style::new().yellow().bold().
CounterStyle ==
    StyleMethodField(StyleMethodFg(StyleNew, "Yellow"), "bold", TRUE)

\* Counter::update; the model is the field `count`, a key is its KeyCode.
CounterUpdate(count, msg) ==
    LET key == MsgCast(msg, "Key") IN
    IF key = None THEN [model |-> count, out |-> None]
    ELSE CASE key[1] = "Enter" -> [model |-> count + 1, out |-> None]
           [] key[1] = "q" ->
                [model |-> count, out |-> Some(MsgNew("Quit", "", "update"))]
           [] OTHER -> [model |-> count, out |-> None]

\* Counter::view.
CounterView(count) == StyleRender(CounterStyle, Digits(count), CounterCols)[1]

\* The keys pressed while the counter runs: Enter, 'q' and one other.
CounterKeys ==
    { [class |-> "Key", data |-> "Enter"], [class |-> "Key", data |-> "q"],
      [class |-> "Key", data |-> "x"] }

\* ------------------------------------------------------- the Model trait
\* Model::startup of the App's model (Counter keeps the default: None).
ModelStartup == IF consumer = "counter" THEN { None } ELSE StartupResults

\* Model::update of the App's model on `msg`.
ModelUpdate(mdl, msg) ==
    IF consumer = "counter" THEN { CounterUpdate(mdl, msg) }
    ELSE UpdateResults(mdl, chainLen, chains)

\* Model::view of the App's model.
ModelView(mdl) == IF consumer = "counter" THEN CounterView(mdl) ELSE View(mdl)

\* The callbacks that may panic: any of an arbitrary consumer; of Counter
\* only view, through terminal_size().unwrap().
MayPanic(callback) == consumer = "any" \/ callback = "view"

\* ----------------------------------------------------------------- frame
\* str::replace("\n", "\r\n") on a text given as a sequence of characters.
RECURSIVE ReplaceNewline(_)
ReplaceNewline(text) ==
    IF text = << >> THEN << >>
    ELSE (IF Head(text) = "\n" THEN << "\r", "\n" >> ELSE << Head(text) >>)
         \o ReplaceNewline(Tail(text))

\* Line 155: the frame of a model.
Frame(mdl) == ReplaceNewline(ModelView(mdl))

\* -------------------------------------------------------------- terminal
\* The effect of one successful crossterm operation on the terminal modes.
ApplyOp(op, t) ==
    CASE op = "enable_raw_mode"      -> [t EXCEPT !.raw = TRUE]
      [] op = "disable_raw_mode"     -> [t EXCEPT !.raw = FALSE]
      [] op = "EnterAlternateScreen" -> [t EXCEPT !.alt = TRUE]
      [] op = "LeaveAlternateScreen" -> [t EXCEPT !.alt = FALSE]
      [] OTHER                       -> t

\* A run of operations joined by `?`: operation failAt (0: none) fails and
\* the later ones are not issued.  Exec is the terminal afterwards, Issued
\* the operations issued, the failing one marked.
RECURSIVE Exec(_, _, _)
Exec(ops, failAt, t) ==
    IF ops = << >> \/ failAt = 1 THEN t
    ELSE Exec(Tail(ops), IF failAt = 0 THEN 0 ELSE failAt - 1,
              ApplyOp(Head(ops), t))

Issued(ops, failAt) ==
    IF failAt = 0 THEN ops
    ELSE SubSeq(ops, 1, failAt - 1) \o << ops[failAt] \o ":err" >>

Term == [raw |-> rawMode, alt |-> altScreen]

\* ------------------------------------------------------------ panic hook
HookRun_OriginalFirst(depth, info, ok) ==
    << [op |-> "original_hook", info |-> info, ok |-> TRUE],
       [op |-> "disable_raw_mode", info |-> info, ok |-> ok],
       [op |-> "LeaveAlternateScreen", info |-> info, ok |-> ok] >>

\* The closure installed by set_panic_hook: disable_raw_mode, then
\* LeaveAlternateScreen, then the hook that was installed before it.
\* Nested installations run outermost first and end in the original hook.
\* The results of the two terminal operations are discarded (`let _ =`):
\* `ok` says whether the terminal accepted them.
RECURSIVE HookRun(_, _, _)
HookRun(depth, info, ok) ==
    IF depth = 0 THEN << [op |-> "original_hook", info |-> info, ok |-> TRUE] >>
    ELSE << [op |-> "disable_raw_mode", info |-> info, ok |-> ok],
            [op |-> "LeaveAlternateScreen", info |-> info, ok |-> ok] >>
         \o HookRun(depth - 1, info, ok)

\* The terminal after the successful operations of a hook run.
RECURSIVE HookEffect(_, _)
HookEffect(run, t) ==
    IF run = << >> THEN t
    ELSE HookEffect(Tail(run),
                    IF Head(run).ok THEN ApplyOp(Head(run).op, t) ELSE t)

\* A panic with payload `info` on any thread runs the installed hook.
Panic(info) ==
    \E ok \in BOOLEAN :
        LET run == HookRun(hookDepth, info, ok)
            t == HookEffect(run, Term)
        IN /\ hookLog' = run
           /\ rawMode' = t.raw
           /\ altScreen' = t.alt

\* The run ends: the App is dropped, and with it the model, the local `m`
\* and the Receiver with whatever the channel still held.
EndRun ==
    /\ model' = InitModel
    /\ m' = None
    /\ chan' = << >>
    /\ chanOpen' = FALSE
    /\ sent' = << >>
    /\ heads' = << >>
    /\ firstUpd' = None
    /\ lastUpd' = None
    /\ firstFrame' = None
    /\ renders' = 0
    /\ chainLen' = 0
    /\ evLog' = << >>

\* run returns `res`.
Return(res) ==
    /\ pc' = "returned"
    /\ result' = res
    /\ EndRun

\* A consumer callback panics on the driver thread: the hook runs and the
\* process ends.
DriverPanic(info) ==
    /\ Panic(info)
    /\ pc' = "panicked"
    /\ EndRun
    /\ UNCHANGED result

\* App::new: the state of a program that built an App and has not called
\* run yet.
Created ==
    /\ pc = "created"
    /\ result = "none"
    /\ model = InitModel
    /\ m = None
    /\ chan = << >>
    /\ chanOpen = TRUE
    /\ rawMode = FALSE
    /\ altScreen = FALSE
    /\ screen = None
    /\ drvOps = << >>
    /\ evPc = "unspawned"
    /\ evCount = 0
    /\ extCount = 0
    /\ pasteFeature \in BOOLEAN
    /\ hookDepth = 0
    /\ hookLog = << >>
    /\ sent = << >>
    /\ heads = << >>
    /\ firstUpd = None
    /\ lastUpd = None
    /\ firstFrame = None
    /\ renders = 0
    /\ chainLen = 0
    /\ evLog = << >>

\* An App built with an arbitrary implementation of Model.
Init ==
    /\ Created
    /\ consumer = "any"
    /\ chains \in BOOLEAN
    /\ arg = None
    /\ ret = None

\* ---------------------------------------------------------------- driver
\* Lines 144 and 146, in order.
SetupOps == << "enable_raw_mode", "EnterAlternateScreen" >>

\* App::run, lines 143-148: install the hook, enter raw mode and the
\* alternate screen (each `?` returns the error), spawn the event thread.
RunSetup ==
    /\ pc = "created"
    /\ hookDepth' = hookDepth + 1
    /\ \E failAt \in 0 .. Len(SetupOps) :
        /\ drvOps' = Issued(SetupOps, failAt)
        /\ rawMode' = Exec(SetupOps, failAt, Term).raw
        /\ altScreen' = Exec(SetupOps, failAt, Term).alt
        /\ IF failAt = 0
           THEN /\ evPc' = "read"
                /\ pc' = "startup"
                /\ UNCHANGED << result, runVars, histVars >>
           ELSE /\ Return("Err")
                /\ UNCHANGED evPc
    /\ UNCHANGED << screen, envVars, hookLog >>

\* App::run, lines 150-152: startup() and the send of its message.
Startup ==
    /\ pc = "startup"
    /\ \/ \E r \in ModelStartup :
            /\ chan' = IF r = None THEN chan ELSE ChanSend(chan, r[1])
            /\ sent' = IF r = None THEN sent ELSE Append(sent, r[1])
            /\ pc' = "render"
            /\ UNCHANGED << result, model, m, chanOpen, termVars, hookLog,
                            heads, firstUpd, lastUpd, firstFrame, renders,
                            chainLen, evLog >>
       \/ MayPanic("startup") /\ DriverPanic("startup")
    /\ drvOps' = << >>
    /\ UNCHANGED << screen, evPc, envVars, hookDepth >>

RenderOps_PrintFirst == << "Print", "Clear", "MoveTo", "flush" >>

\* Line 157 and line 158, in order.
RenderOps == << "Clear", "MoveTo", "Print", "flush" >>

\* App::run, lines 155-158: view, "\n" -> "\r\n", then Clear, MoveTo and
\* Print through execute! (which flushes), then stdout.flush().  The first
\* failing operation returns its error; the frame is on the terminal once
\* Print succeeded.
Render ==
    /\ pc = "render"
    /\ \/ \E failAt \in 0 .. Len(RenderOps) :
            /\ drvOps' = << "view" >> \o Issued(RenderOps, failAt)
            /\ screen' = IF failAt = 0 \/ failAt > 3
                         THEN Some([text |-> Frame(model),
                                    raw |-> rawMode, alt |-> altScreen])
                         ELSE screen
            /\ IF failAt = 0
               THEN /\ pc' = "recv"
                    /\ firstFrame' = IF renders = 0 THEN Some(Frame(model))
                                     ELSE firstFrame
                    /\ renders' = renders + 1
                    /\ UNCHANGED << result, runVars, sent, heads, firstUpd,
                                    lastUpd, chainLen, evLog >>
               ELSE Return("Err")
            /\ UNCHANGED << termVars, hookLog >>
       \/ /\ MayPanic("view")
          /\ DriverPanic("view")
          /\ drvOps' = << >>
          /\ UNCHANGED screen
    /\ UNCHANGED << evPc, envVars, hookDepth >>

\* App::run, line 160: recv() blocks until the channel holds a message; it
\* cannot fail while the App owns a Sender.
Recv ==
    /\ pc = "recv"
    /\ chan # << >>
    /\ m' = Some(ChanRecv(chan))
    /\ chan' = Tail(chan)
    /\ heads' = Append(heads, ChanRecv(chan))
    /\ chainLen' = 0
    /\ pc' = "chain"
    /\ drvOps' = << >>
    /\ UNCHANGED << result, model, chanOpen, termVars, screen, evPc, envVars,
                    hookDepth, hookLog, sent, firstUpd, lastUpd, firstFrame,
                    renders, evLog >>

IsQuit_Never(msg) == FALSE

\* Line 162: the test that breaks out of both loops.
IsQuit(msg) == MsgIs(msg, "Quit")

KeepModel_Old(old, returned) == old

\* Line 167: the model the driver keeps after an update.
KeepModel(old, returned) == returned

ChainNext_RenderEach(out) == "render"

ChainNext_SkipRender(out) == IF out = None THEN "recv" ELSE "chain"

ChainNext_StopWhenIdle(out) == IF out = None THEN "teardown" ELSE "chain"

\* Lines 161 and 168-169: where the driver goes after an update returned
\* `out`: round the inner loop again, or back to the top of the outer loop.
ChainNext(out) == IF out = None THEN "render" ELSE "chain"

\* App::run, lines 161-169: one turn of the `while let Some(msg) = m` loop.
Chain ==
    /\ pc = "chain"
    /\ m # None
    /\ LET msg == m[1] IN
       IF IsQuit(msg)
       THEN /\ pc' = "teardown"
            /\ m' = None
            /\ UNCHANGED << result, model, chan, chanOpen, termVars, hookLog,
                            histVars >>
       ELSE \/ \E r \in ModelUpdate(model, msg) :
                 /\ model' = KeepModel(model, r.model)
                 /\ m' = r.out
                 /\ firstUpd' = IF firstUpd = None THEN Some(msg) ELSE firstUpd
                 /\ lastUpd' = Some([msg |-> msg, model |-> r.model,
                                     out |-> r.out])
                 /\ chainLen' = IF r.out = None THEN chainLen ELSE chainLen + 1
                 /\ pc' = ChainNext(r.out)
                 /\ UNCHANGED << result, chan, chanOpen, termVars, hookLog,
                                 sent, heads, firstFrame, renders, evLog >>
            \/ MayPanic("update") /\ DriverPanic("update")
    /\ drvOps' = << >>
    /\ UNCHANGED << screen, evPc, envVars, hookDepth >>

TeardownOps_LeaveOnly == << "LeaveAlternateScreen" >>

\* Lines 172 and 173, in order.
TeardownOps == << "disable_raw_mode", "LeaveAlternateScreen" >>

\* App::run, lines 172-175: disable_raw_mode()?, LeaveAlternateScreen?, Ok.
Teardown ==
    /\ pc = "teardown"
    /\ \E failAt \in 0 .. Len(TeardownOps) :
        /\ drvOps' = Issued(TeardownOps, failAt)
        /\ rawMode' = Exec(TeardownOps, failAt, Term).raw
        /\ altScreen' = Exec(TeardownOps, failAt, Term).alt
        /\ Return(IF failAt = 0 THEN "Ok" ELSE "Err")
    /\ UNCHANGED << screen, evPc, envVars, hookDepth, hookLog >>

\* ---------------------------------------------------------- event thread
\* One turn of the loop of spawn_crossterm_event_thread with a successful
\* event::read(): translate, then send (or `continue` for a dropped paste).
\* A send on a channel whose Receiver is gone panics through `expect`.
EvTurn(e) ==
    /\ evPc = "read"
    /\ pc # "panicked"
    /\ evCount' = evCount + 1
    /\ evLog' = IF chanOpen THEN Append(evLog, e) ELSE evLog
    /\ LET t == Translate(e, pasteFeature) IN
        IF t = None
        THEN UNCHANGED << chan, sent, evPc, termVars, hookLog >>
        ELSE IF ~SendFails(chanOpen)
             THEN /\ chan' = ChanSend(chan, t[1])
                  /\ sent' = Append(sent, t[1])
                  /\ UNCHANGED << evPc, termVars, hookLog >>
             ELSE /\ Panic("send")
                  /\ evPc' = "send_failed"
                  /\ UNCHANGED << chan, sent >>
    /\ UNCHANGED << pc, result, model, m, chanOpen, screen, drvOps, extCount,
                    pasteFeature, chains, consumer, arg, ret, hookDepth, heads,
                    firstUpd, lastUpd, firstFrame, renders, chainLen >>

\* The event thread of a program whose terminal delivers the events of
\* Delivered.
EvRead == evCount < MaxEvents /\ \E e \in Delivered : EvTurn(e)

\* event::read() returns an error: `expect` panics on the event thread, the
\* hook runs and the thread ends.  The driver thread is not affected.
EvReadFail ==
    /\ evPc = "read"
    /\ pc # "panicked"
    /\ Panic("event_read")
    /\ evPc' = "read_failed"
    /\ UNCHANGED << pc, result, runVars, screen, drvOps, envVars, hookDepth,
                    histVars >>

\* ------------------------------------------------------ external senders
\* A clone obtained from App::sender (before run consumed the App) sends a
\* message.  Once the Receiver is gone a send only returns an error to its
\* caller and changes nothing.
ExtSend ==
    /\ pc # "panicked"
    /\ chanOpen
    /\ extCount < MaxExt
    /\ extCount' = extCount + 1
    /\ \E msg \in ExtMsgs :
        chan' = ChanSend(chan, msg) /\ sent' = Append(sent, msg)
    /\ UNCHANGED << pc, result, model, m, chanOpen, termVars, screen, drvOps,
                    evPc, evCount, pasteFeature, chains, consumer, arg, ret,
                    hookDepth, hookLog, heads, firstUpd, lastUpd, firstFrame,
                    renders, chainLen, evLog >>

Next ==
    \/ RunSetup
    \/ Startup
    \/ Render
    \/ Recv
    \/ Chain
    \/ Teardown
    \/ EvRead
    \/ EvReadFail
    \/ ExtSend

Spec == Init /\ [][Next]_vars

\* The driver thread is scheduled whenever it can take a step.  Nothing is
\* assumed of the terminal backend or of the holders of Sender clones.
Driver == RunSetup \/ Startup \/ Render \/ Recv \/ Chain \/ Teardown

FairSpec == Spec /\ WF_vars(Driver)

\* The program while event::read() never fails: the driver, the event
\* thread's successful turns and the holders of Sender clones, the driver
\* being scheduled fairly.
NoReadFaultNext == Driver \/ EvRead \/ ExtSend

NoReadFaultSpec == Init /\ [][NoReadFaultNext]_vars /\ WF_vars(Driver)

\* ------------------------------------------------- several runs, one process
\* After run returned, the program builds another App (App::new: a new
\* channel, the initial model) to run it.  It does so here only when no
\* event thread of an earlier run is still alive: none was spawned, or it
\* has panicked.
NewApp ==
    /\ pc = "returned"
    /\ evPc # "read"
    /\ hookDepth < MaxRuns
    /\ pc' = "created"
    /\ result' = "none"
    /\ chanOpen' = TRUE
    /\ drvOps' = << >>
    /\ UNCHANGED << model, m, chan, termVars, screen, evPc, envVars, hookDepth,
                    hookLog, histVars >>

RerunNext ==
    \/ RunSetup
    \/ Startup
    \/ Render
    \/ Recv
    \/ Chain
    \/ Teardown
    \/ EvRead
    \/ EvReadFail
    \/ ExtSend
    \/ NewApp

RerunSpec == Init /\ [][RerunNext]_vars

\* ---------------------------------------------------- the Counter example
\* examples/counter.rs: an App built with Counter::default(), on a terminal
\* that delivers events of every class and the keys Counter tells apart.
\* The example hands out no Sender clone.
AllEvents == RawEvents \cup CounterKeys

CounterInit ==
    /\ Created
    /\ consumer = "counter"
    /\ chains = FALSE
    /\ arg = None
    /\ ret = None

EvReadAll == evCount < MaxKeys /\ \E e \in AllEvents : EvTurn(e)

CounterNext ==
    \/ RunSetup
    \/ Startup
    \/ Render
    \/ Recv
    \/ Chain
    \/ Teardown
    \/ EvReadAll
    \/ EvReadFail

CounterSpec == CounterInit /\ [][CounterNext]_vars

\* ------------------------------------------------- the library's functions
\* Calls of the public functions of msg.rs and style.rs on values built by
\* a program that has created an App and is not running it.
progVars == << pc, result, runVars, termVars, screen, drvOps, evPc, evCount,
               extCount, pasteFeature, chains, consumer, hookDepth, hookLog,
               histVars >>

\* The payload types of msg.rs, then two types a consumer defines.  Paste
\* exists only in a build with the `paste` feature.
PayloadTypes(paste) ==
    { "Quit", "Key", "Mouse", "Focus", "Resize", "Custom", "Other" }
    \cup (IF paste THEN { "Paste" } ELSE { })

\* Values of each payload type.
Payloads(paste) ==
    { p \in { [type |-> "Quit", value |-> ""],
              [type |-> "Key", value |-> "Enter"],
              [type |-> "Key", value |-> "q"],
              [type |-> "Mouse", value |-> "Down"],
              [type |-> "Focus", value |-> "Gained"],
              [type |-> "Focus", value |-> "Lost"],
              [type |-> "Resize", value |-> "80x24"],
              [type |-> "Paste", value |-> "text"],
              [type |-> "Custom", value |-> "Tick"],
              [type |-> "Other", value |-> "Tick"] } :
        p.type \in PayloadTypes(paste) }

\* The pieces a text is made of: a visible character, or one escape
\* sequence: two SGR sequences (as Style::render writes them) and the CSI
\* sequence "erase display".
Segments ==
    { [kind |-> "char", chars |-> << "a" >>],
      [kind |-> "char", chars |-> << "m" >>],
      [kind |-> "escape", chars |-> Sgr(<< "3", "1" >>)],
      [kind |-> "escape", chars |-> Sgr(<< "0" >>)],
      [kind |-> "escape", chars |-> << "ESC", "[", "2", "J" >>] }

\* Texts of at most MaxSegs pieces.
SegSeqs == UNION { [1 .. n -> Segments] : n \in 0 .. MaxSegs }

\* The string the pieces spell.
RECURSIVE Concat(_)
Concat(segs) ==
    IF segs = << >> THEN << >> ELSE Head(segs).chars \o Concat(Tail(segs))

\* Styles a consumer may have built before it calls an on_<color> method.
Styles ==
    { [StyleNew EXCEPT !.fg = f, !.bg = b, !.bold = bd] :
        f \in { None, Some("Red") }, b \in { None, Some("Blue") },
        bd \in BOOLEAN }

\* The variants of Align.
Aligns == { "Left", "Center", "Right" }

LibInit ==
    /\ Created
    /\ consumer = "any"
    /\ chains = FALSE
    /\ ret = None
    /\ \/ \E p \in Payloads(pasteFeature) :
            arg = [fn |-> "Msg", type |-> p.type, value |-> p.value,
                   msg |-> MsgNew(p.type, p.value, "new")]
       \/ \E segs \in SegSeqs :
            arg = [fn |-> "visible_length", segs |-> segs,
                   text |-> Concat(segs)]
       \/ \E st \in Styles, c \in Colors :
            arg = [fn |-> "Style", style |-> st, color |-> c]
       \/ \E a \in Aligns, segs \in SegSeqs, c \in 0 .. MaxCols,
             checks \in BOOLEAN :
            arg = [fn |-> "render", style |-> [StyleNew EXCEPT !.align = a],
                   text |-> Concat(segs), cols |-> c,
                   overflow_checks |-> checks]

\* msg.cast::<T>() for some payload type T.
ApplyCast ==
    /\ arg.fn = "Msg"
    /\ \E T \in PayloadTypes(pasteFeature) :
        ret' = Some([op |-> "cast", type |-> T, out |-> MsgCast(arg.msg, T)])
    /\ UNCHANGED << progVars, arg >>

\* msg.is::<T>() for some payload type T.
ApplyIs ==
    /\ arg.fn = "Msg"
    /\ \E T \in PayloadTypes(pasteFeature) :
        ret' = Some([op |-> "is", type |-> T, holds |-> MsgIs(arg.msg, T)])
    /\ UNCHANGED << progVars, arg >>

\* visible_length(text), as Style::render calls it.
ApplyVisibleLength ==
    /\ arg.fn = "visible_length"
    /\ ret' = Some([op |-> "visible_length",
                    length |-> VisibleLength(arg.text)])
    /\ UNCHANGED << progVars, arg >>

\* style.on_<color>() and style.bg(<color>) on the same style.
ApplyOn ==
    /\ arg.fn = "Style"
    /\ ret' = Some([op |-> "on", on |-> StyleMethodBg(arg.style, arg.color),
                    bg |-> StyleBg(arg.style, arg.color)])
    /\ UNCHANGED << progVars, arg >>

\* style.render(text) on a terminal arg.cols wide.
ApplyRender ==
    /\ arg.fn = "render"
    /\ ret' = Some([op |-> "render",
                    pad |-> StylePad(arg.style, arg.cols,
                                     VisibleLength(arg.text)),
                    rendered |-> StyleRender(arg.style, arg.text, arg.cols),
                    fault |-> RenderFault(arg.style, arg.text, arg.cols,
                                          arg.overflow_checks)])
    /\ UNCHANGED << progVars, arg >>

LibNext ==
    ApplyCast \/ ApplyIs \/ ApplyVisibleLength \/ ApplyOn \/ ApplyRender

LibSpec == LibInit /\ [][LibNext]_vars

\* ------------------------------------------------- the text_input example
\* examples/text_input.rs: Model::update of its model, applied to one
\* message after the other.  arg holds the model and the build's setting
\* of overflow checks, ret the outcome of the latest call.
\* Model::default(): empty text, cursor 0.
TextInputNew == [text |-> << >>, cursor |-> 0]

\* The characters typed: 'a', of one byte in UTF-8, and e-acute, of two
\* (written "e_acute": one character).
TextChars == { "a", "e_acute" }

\* The keys pressed, by KeyCode; "ctrl+c" is Char('c') with CONTROL, "Tab"
\* a key update has no arm for.
TextKeys ==
    TextChars \cup { "ctrl+c", "Backspace", "Left", "Right", "Enter", "Tab" }

\* The messages update is called with: the keys and one that is no Key.
TextMsgs ==
    { MsgNew("Key", k, "term") : k \in TextKeys }
    \cup { MsgNew("Resize", "80x24", "term") }

\* char::len_utf8.
Utf8Len(c) == IF c = "a" \/ c = "\n" THEN 1 ELSE 2

\* String::len: the length in bytes.
RECURSIVE ByteLen(_)
ByteLen(text) ==
    IF text = << >> THEN 0 ELSE Utf8Len(Head(text)) + ByteLen(Tail(text))

\* The characters of `text` that start at byte `idx` (at most one).
CharsAt(text, idx) ==
    { k \in 1 .. Len(text) : ByteLen(SubSeq(text, 1, k - 1)) = idx }

\* The text without its k-th character.
RemoveChar(text, k) == SubSeq(text, 1, k - 1) \o SubSeq(text, k + 1, Len(text))

\* Model::update, lines 17-40.  `fault` is "none" when the call returns;
\* otherwise the model is the one the call started from.
TextInputUpdate(mdl, msg, checks) ==
    LET key  == MsgCast(msg, "Key")
        same == [model |-> mdl, out |-> None, fault |-> "none"]
        len  == ByteLen(mdl.text)
    IN
    IF key = None THEN same
    ELSE LET code == key[1] IN
    IF code = "ctrl+c"
    THEN [same EXCEPT !.out = Some(MsgNew("Quit", "", "update"))]
    ELSE IF code \in TextChars
    THEN [same EXCEPT !.model = [text |-> Append(mdl.text, code),
                                 cursor |-> mdl.cursor + 1]]
    ELSE IF code = "Backspace" /\ mdl.cursor > 0
    THEN IF CharsAt(mdl.text, mdl.cursor - 1) = { }
         THEN [same EXCEPT !.fault = "String::remove"]
         ELSE LET k == CHOOSE k \in CharsAt(mdl.text, mdl.cursor - 1) : TRUE
              IN [same EXCEPT !.model = [text |-> RemoveChar(mdl.text, k),
                                         cursor |-> mdl.cursor - 1]]
    ELSE IF code = "Left"
    THEN [same EXCEPT !.model.cursor =
                          IF mdl.cursor = 0 THEN 0 ELSE mdl.cursor - 1]
    ELSE IF code = "Right" /\ len = 0 /\ checks
    THEN [same EXCEPT !.fault = "attempt to subtract with overflow"]
    ELSE IF code = "Right" /\ (len = 0 \/ mdl.cursor < len - 1)
    THEN [same EXCEPT !.model.cursor = mdl.cursor + 1]
    ELSE IF code = "Enter"
    THEN [same EXCEPT !.model = [text |-> Append(mdl.text, "\n"),
                                 cursor |-> mdl.cursor + 1]]
    ELSE same

TextInputInit ==
    /\ Created
    /\ consumer = "any"
    /\ chains = FALSE
    /\ ret = None
    /\ \E checks \in BOOLEAN :
        arg = [fn |-> "update", model |-> TextInputNew,
               overflow_checks |-> checks]

\* One call of update, while no earlier call has panicked.
TextInputKey ==
    /\ arg.fn = "update"
    /\ IF ret = None THEN TRUE ELSE ret[1].fault = "none"
    /\ arg.model.cursor <= MaxText
    /\ \E msg \in TextMsgs :
        LET r == TextInputUpdate(arg.model, msg, arg.overflow_checks) IN
        /\ Len(r.model.text) <= MaxText
        /\ arg' = [arg EXCEPT !.model = r.model]
        /\ ret' = Some([op |-> "update", msg |-> msg, fault |-> r.fault,
                        followup |-> r.out])
    /\ UNCHANGED progVars

TextInputNext == TextInputKey

TextInputSpec == TextInputInit /\ [][TextInputNext]_vars

\* ================================================================ claims
\* startup() returned a message that was sent on the channel.
StartupSent == \E i \in 1 .. Len(sent) : sent[i].src = "startup"

\* The same, for a message other than Quit (one that update can receive).
StartupMsgSent ==
    \E i \in 1 .. Len(sent) : sent[i].src = "startup" /\ sent[i].type # "Quit"

\* Messages taken from the channel that came from outside the driver.
ExternalHeads == { i \in 1 .. Len(heads) : heads[i].src \in { "term", "ext" } }

\* C1: the driver renders only between chains, never inside one: while a
\* chain is running no frame has been written since its head was taken; the
\* driver reaches the render step only when the last update returned no
\* follow-up, holding the model that update returned; and the frame on the
\* terminal at the next wait is the view of that model.
C1_RenderAfterChain ==
    /\ pc = "chain" => renders = Len(heads)
    /\ (pc = "render" /\ lastUpd # None) =>
          /\ m = None
          /\ lastUpd[1].out = None
          /\ model = lastUpd[1].model
    /\ (pc = "recv" /\ lastUpd # None) =>
          /\ lastUpd[1].out = None
          /\ screen # None
          /\ screen[1].text = Frame(lastUpd[1].model)

\* A chain of two follow-ups (three updates) was drained and rendered once.
C1_Witness ==
    /\ pc = "recv"
    /\ chainLen = 2
    /\ Len(heads) = 1
    /\ renders = 2
    /\ model = 3
    /\ screen[1].text = Frame(3)

\* C2: Quit halts the loop.  update is never called with a Quit message;
\* and from the moment the driver holds a Quit message (as chain head or as
\* follow-up) it only tears down and returns: no frame is written, no
\* message is taken from the channel and no update runs.
C2_QuitHalts ==
    [][ LET halted == \/ pc = "teardown"
                      \/ pc = "chain" /\ m # None /\ m[1].type = "Quit"
        IN /\ lastUpd' # None => lastUpd'[1].msg.type # "Quit"
           /\ halted =>
                /\ pc' \in { pc, "teardown", "returned" }
                /\ pc' = "chain" => m' = m
                /\ screen' = screen
                /\ pc' # "returned" =>
                      /\ renders' = renders
                      /\ heads' = heads
                      /\ lastUpd' = lastUpd ]_vars

\* update returned Quit as a follow-up and the loop halted with a message
\* still waiting in the channel.
C2_Witness ==
    /\ pc = "teardown"
    /\ chan # << >>
    /\ lastUpd # None
    /\ lastUpd[1].out # None
    /\ lastUpd[1].out[1].type = "Quit"

\* C3 (as stated): for a consumer that never returns a follow-up, at every
\* wait the number of frames written equals the number of externally
\* sourced messages consumed.
C3_RendersEqualExternal ==
    (pc = "recv" /\ ~chains) => renders = Cardinality(ExternalHeads)

\* C3 (amended): for a consumer that never returns a follow-up, at every
\* wait the number of frames written is one more than the number of messages
\* taken from the channel: the frame written before the first wait, then
\* one frame per message taken.
C3_RendersEqualHeadsPlusOne ==
    (pc = "recv" /\ ~chains) => renders = Len(heads) + 1

\* Two messages were consumed by a consumer that never chains.
C3_Witness ==
    /\ pc = "recv"
    /\ ~chains
    /\ Len(heads) = 2
    /\ renders = 3

\* C4: if startup() returned a message, the first message passed to update
\* is that message.
C4_StartupFirst ==
    (StartupMsgSent /\ firstUpd # None) => firstUpd[1].src = "startup"

\* C5 (as stated): when startup() returned a message, the first frame
\* written is not a frame of the pre-startup model.
C5_FirstFrameAfterStartupChain ==
    (StartupMsgSent /\ firstFrame # None) => firstFrame[1] # Frame(InitModel)

\* C5 (amended): the first frame written is the view of the initial model,
\* written before any update; and when startup() returned a message, the
\* driver's first wait finds a message in the channel, so that the first
\* update and render cycle needs no terminal event.
C5_FirstFrameInitialThenCycle ==
    /\ firstFrame # None => firstFrame[1] = Frame(InitModel)
    /\ (pc = "recv" /\ renders = 1) => lastUpd = None
    /\ (pc = "recv" /\ heads = << >> /\ StartupSent) => chan # << >>

\* startup() returned a message, the initial frame is written and the driver
\* is at its first wait with no terminal event read.
C5_Witness ==
    /\ pc = "recv"
    /\ heads = << >>
    /\ StartupMsgSent
    /\ evCount = 0
    /\ firstFrame = Some(Frame(InitModel))

\* C6: whenever run has returned, raw mode is off and the alternate screen
\* has been left.
C6_TerminalReverted ==
    pc = "returned" => ~rawMode /\ ~altScreen

\* C7: when startup, update or view panicked, the hook first disabled raw
\* mode, then left the alternate screen, and only then called the hook that
\* was installed before it, with the panic's own info; the terminal is then
\* in cooked mode on the main screen (for each operation the terminal
\* accepted).
C7_HookRestoresThenChains ==
    pc = "panicked" =>
        LET n == Len(hookLog) IN
        /\ n >= 3
        /\ hookLog[1].op = "disable_raw_mode"
        /\ hookLog[2].op = "LeaveAlternateScreen"
        /\ hookLog[n].op = "original_hook"
        /\ \A i \in 1 .. n - 1 : hookLog[i].op # "original_hook"
        /\ \A i \in 1 .. n :
              /\ hookLog[i].info = hookLog[n].info
              /\ hookLog[i].info \in { "startup", "update", "view" }
        /\ hookLog[1].ok => ~rawMode
        /\ hookLog[2].ok => ~altScreen

\* update panicked and the hook restored the terminal.
C7_Witness ==
    /\ pc = "panicked"
    /\ hookLog # << >>
    /\ hookLog[Len(hookLog)].info = "update"
    /\ hookLog[1].ok
    /\ ~rawMode
    /\ ~altScreen

\* C8: a failed event read is fatal to the run: when the event thread has
\* died of it while the driver waits for a message, the run ends, and it
\* ends in a fault its caller sees (an error result or a panic).
C8_ReadFaultEndsRun ==
    (evPc = "read_failed" /\ pc = "recv")
        ~> (pc = "panicked" \/ (pc = "returned" /\ result = "Err"))

\* C9: the driver takes messages in the order in which they were sent:
\* what has been sent is what has been taken followed by what is waiting.
C9_Fifo ==
    chanOpen => sent = heads \o chan

\* Three messages of three different producers have been taken.
C9_Witness ==
    /\ Len(heads) = 3
    /\ { heads[i].src : i \in 1 .. 3 } = { "startup", "ext", "term" }

\* C10: when run has returned Ok, its last step disabled raw mode and then
\* left the alternate screen, and the terminal is in cooked mode on the
\* main screen.
C10_TeardownOrder ==
    (pc = "returned" /\ result = "Ok") =>
        /\ drvOps = << "disable_raw_mode", "LeaveAlternateScreen" >>
        /\ ~rawMode
        /\ ~altScreen

\* run returned Ok while the event thread was still reading.
C10_Witness ==
    /\ pc = "returned"
    /\ result = "Ok"
    /\ evPc = "read"
    /\ ~rawMode
    /\ ~altScreen

\* The positions of the driver inside the `'outer` loop of run.
InLoop == { "render", "recv", "chain" }

\* The message the chain loop holds is Quit, and it is the head taken last
\* from the channel or the follow-up of the latest update.
QuitObserved ==
    /\ m # None
    /\ MsgIs(m[1], "Quit")
    /\ \/ chainLen = 0 /\ heads # << >> /\ heads[Len(heads)] = m[1]
       \/ lastUpd # None /\ lastUpd[1].out = m

\* C11: run returns Ok only from the teardown that follows the loop; the
\* driver leaves the loop for the teardown only in a step that observed a
\* Quit message, as the head of a chain or as the follow-up of an update;
\* every other step that leaves the loop is a failed terminal operation
\* (run returns Err) or a panic of a consumer callback.  No step leaves the
\* loop on its own account.
C11_OkOnlyAfterQuit ==
    [][ /\ (pc # "returned" /\ pc' = "returned" /\ result' = "Ok")
            => pc = "teardown"
        /\ (pc # "teardown" /\ pc' = "teardown")
            => (pc = "chain" /\ QuitObserved)
        /\ (pc \in InLoop /\ pc' \notin InLoop)
            => \/ pc' = "teardown"
               \/ pc' = "returned" /\ result' = "Err"
               \/ pc' = "panicked" ]_vars

\* The loop was left on a Quit that an update returned as its follow-up.
C11_Witness ==
    /\ pc = "teardown"
    /\ lastUpd # None
    /\ lastUpd[1].out # None
    /\ MsgIs(lastUpd[1].out[1], "Quit")

\* A Quit message waits in the channel or is held by the chain loop.
QuitPending ==
    /\ chanOpen
    /\ \/ \E i \in 1 .. Len(chan) : MsgIs(chan[i], "Quit")
       \/ m # None /\ MsgIs(m[1], "Quit")

\* The run ended in a fault: an I/O error returned by run, or a panic.
Faulted == (pc = "returned" /\ result = "Err") \/ pc = "panicked"

\* C12: once a Quit message has been sent on the channel or returned as a
\* follow-up, a driver that is scheduled fairly reaches the end of run and
\* returns Ok, unless a terminal operation fails or a consumer callback
\* panics on the way.  The messages queued before the Quit are processed
\* first; each of their chains is finite.
C12_QuitTerminates ==
    QuitPending ~> ((pc = "returned" /\ result = "Ok") \/ Faulted)

\* The driver waits while a Quit is queued behind another message.
C12_Witness ==
    /\ pc = "recv"
    /\ Len(chan) >= 2
    /\ ~MsgIs(chan[1], "Quit")
    /\ MsgIs(chan[2], "Quit")

\* C13: cast::<T>() on a Msg built by Msg::new from a value of type U
\* returns Some(that value) when T = U and None when T # U, for every pair
\* of payload types; it is defined (it does not panic) on every pair.
C13_CastIffSameType ==
    (ret # None /\ ret[1].op = "cast") =>
        /\ (ret[1].out # None) <=> (ret[1].type = arg.type)
        /\ (ret[1].out # None) => (ret[1].out[1] = arg.value)

\* A cast to the payload's own type, on a type with more than one value.
C13_Witness ==
    /\ ret # None
    /\ ret[1].op = "cast"
    /\ arg.type = "Key"
    /\ ret[1].out = Some("q")

\* C14: is::<T>() is TRUE exactly when the Msg was built from a payload of
\* type T: is::<Quit>() holds of a Msg built from Quit and of no Msg built
\* from another built-in or consumer-defined payload; and is::<T>() equals
\* cast::<T>().is_some().
C14_IsIffSameType ==
    (ret # None /\ ret[1].op = "is") =>
        /\ ret[1].holds <=> (ret[1].type = arg.type)
        /\ (ret[1].type = "Quit") => (ret[1].holds <=> (arg.type = "Quit"))
        /\ ret[1].holds <=> (MsgCast(arg.msg, ret[1].type) # None)

\* is::<Quit>() answered FALSE on a consumer-defined payload.
C14_Witness ==
    /\ ret # None
    /\ ret[1].op = "is"
    /\ ret[1].type = "Quit"
    /\ arg.type = "Custom"
    /\ ~ret[1].holds

\* The payload type each class of terminal event is delivered as.
ClassType(class) ==
    IF class \in { "FocusGained", "FocusLost" } THEN "Focus" ELSE class

\* C15: in a build without the `paste` feature, a turn of the event thread
\* that reads a paste event puts nothing on the channel and leaves the
\* thread at its next read; a turn that reads any other event, whether or
\* not paste events were read before it, appends one message of that
\* event's payload type, with its data, at the end of the channel.
C15_PasteDropped ==
    [][ (~pasteFeature /\ Len(evLog') = Len(evLog) + 1) =>
            LET e == evLog'[Len(evLog')] IN
            IF e.class = "Paste"
            THEN chan' = chan /\ sent' = sent /\ evPc' = "read"
            ELSE /\ Len(chan') = Len(chan) + 1
                 /\ SubSeq(chan', 1, Len(chan)) = chan
                 /\ chan'[Len(chan')].type = ClassType(e.class)
                 /\ e.class = "Key" => chan'[Len(chan')].data = e.data
                 /\ evPc' = "read" ]_vars

\* A paste event was read and dropped, and the key and the resize read
\* after it are the messages sent, in that order.
C15_Witness ==
    /\ ~pasteFeature
    /\ Len(evLog) = 3
    /\ evLog[1].class = "Paste"
    /\ evLog[2].class = "Key"
    /\ evLog[3].class = "Resize"
    /\ Len(sent) = 2
    /\ sent[1].type = "Key"
    /\ sent[1].data = evLog[2].data
    /\ sent[2].type = "Resize"

\* The Enter keys among the messages taken from the channel.
Enters ==
    Cardinality({ i \in 1 .. Len(heads) :
                    heads[i].type = "Key" /\ heads[i].data = "Enter" })

\* What Counter's view returns for a count: bold, yellow, the number, reset.
CounterFrame(n) ==
    << "ESC", "[", "1", "m", "ESC", "[", "9", "3", "m" >> \o Digits(n)
    \o << "ESC", "[", "0", "m" >>

KeyQ(msg) == msg.type = "Key" /\ msg.data = "q"

\* C16: the Counter starts at 0.  Whenever the driver waits for the next
\* message, no 'q' key has been consumed, the frame on the terminal shows
\* the number of Enter keys consumed so far, and the latest update returned
\* no follow-up.  The update that consumes a 'q' key returns Quit, and the
\* driver goes from it to the end of the loop with no further render: the
\* frames written stay one per message consumed before the 'q', plus the
\* initial one.
C16_CounterFrames ==
    /\ pc = "recv" =>
          /\ \A i \in 1 .. Len(heads) : ~KeyQ(heads[i])
          /\ model = Enters
          /\ screen # None
          /\ screen[1].text = CounterFrame(Enters)
          /\ lastUpd # None => lastUpd[1].out = None
    /\ (lastUpd # None /\ KeyQ(lastUpd[1].msg)) =>
          /\ lastUpd[1].out # None
          /\ MsgIs(lastUpd[1].out[1], "Quit")
          /\ pc \in { "chain", "teardown" }
          /\ renders = Len(heads)

\* An Enter key, then 'q': the loop was left with the count at 1.
C16_Witness ==
    /\ pc = "teardown"
    /\ lastUpd # None
    /\ KeyQ(lastUpd[1].msg)
    /\ model = 1
    /\ screen[1].text = CounterFrame(1)

\* The characters of a text that belong to none of its escape sequences.
VisibleChars(segs) ==
    Cardinality({ i \in 1 .. Len(segs) : segs[i].kind = "char" })

\* C17: visible_length(s) is the number of characters of s outside its
\* escape sequences, for every string: any number of escape sequences,
\* none at all (the character count), or nothing else (0).
C17_VisibleLengthSkipsEscapes ==
    (ret # None /\ ret[1].op = "visible_length") =>
        ret[1].length = VisibleChars(arg.segs)

\* C18: style.on_<color>() returns the style with its background set to
\* the colour and its foreground, like every other attribute, as it was:
\* the style that style.bg(<color>) returns.
C18_OnColorSetsBackground ==
    (ret # None /\ ret[1].op = "on") =>
        /\ ret[1].on.bg = Some(arg.color)
        /\ ret[1].on.fg = arg.style.fg
        /\ ret[1].on = ret[1].bg

\* The latest update returned a follow-up message.
FollowUpPending == lastUpd # None /\ lastUpd[1].out # None

\* C19: after an update that returned a follow-up, the next message passed
\* to update is that follow-up, and until then nothing is taken from the
\* channel, whatever the channel holds: the follow-up never joins the
\* channel and overtakes every message waiting in it.
C19_FollowUpFirst ==
    [][ FollowUpPending =>
            /\ (lastUpd' # None /\ lastUpd' # lastUpd) =>
                    /\ lastUpd'[1].msg = lastUpd[1].out[1]
                    /\ sent' = sent
            /\ (lastUpd' = lastUpd) => heads' = heads ]_vars

\* A follow-up was passed to update while a message was waiting in the
\* channel.
C19_Witness ==
    /\ lastUpd # None
    /\ lastUpd[1].msg.src = "update"
    /\ Len(heads) = 1
    /\ chan # << >>

\* C20: every frame the driver wrote was written to a terminal in raw mode
\* with the alternate screen active, in every interleaving of the driver
\* with the event thread, a panic of that thread included.
C20_FramesInRawAltScreen ==
    screen # None => (screen[1].raw /\ screen[1].alt)

\* C21: once run has returned, a turn of the event thread that reads a
\* terminal event runs no panic hook (no raw-mode or alternate-screen
\* operation) and leaves the thread alive at its next read.
C21_QuietAfterReturn ==
    [][ (pc = "returned" /\ evCount' = evCount + 1) =>
            (hookLog' = hookLog /\ evPc' = "read") ]_vars

\* C21 (amended): once run has returned, a turn of the event thread that
\* reads a terminal event leaves the caller's result and the dead channel
\* as they are, and either drops the event (a paste event in a build
\* without the feature) or fails to send: the thread panics, the hook runs
\* the restoration and then the original hook with the payload of that
\* panic, no terminal mode is switched on, and the thread has ended.
C21_SendFailureEndsThreadOnly ==
    [][ (pc = "returned" /\ evCount' = evCount + 1) =>
            /\ pc' = "returned"
            /\ result' = result
            /\ chan' = chan
            /\ \/ /\ ~pasteFeature
                  /\ evPc' = "read"
                  /\ hookLog' = hookLog
                  /\ rawMode' = rawMode
                  /\ altScreen' = altScreen
               \/ /\ evPc' = "send_failed"
                  /\ hookLog' # << >>
                  /\ \A i \in 1 .. Len(hookLog') : hookLog'[i].info = "send"
                  /\ hookLog'[Len(hookLog')].op = "original_hook"
                  /\ rawMode' => rawMode
                  /\ altScreen' => altScreen ]_vars

\* run returned Ok and a later event ended the event thread.
C21_Witness ==
    /\ pc = "returned"
    /\ result = "Ok"
    /\ evPc = "send_failed"
    /\ hookLog # << >>

\* App::run is executing: between its first statement and its return.
Running == pc \in { "startup", "render", "recv", "chain", "teardown" }

\* C22: while run is executing the Receiver is alive, so that no send of
\* the event thread, of the startup injection or of a Sender clone has
\* failed; the App's own Sender keeps recv() from failing.
C22_ChannelOpenWhileRunning ==
    Running => (chanOpen /\ evPc # "send_failed")

\* The driver waits after the startup injection, the event thread and a
\* Sender clone have each sent a message.
C22_Witness ==
    /\ pc = "recv"
    /\ \A src \in { "startup", "term", "ext" } :
            \E i \in 1 .. Len(sent) : sent[i].src = src

\* The entries of the latest hook run that are operation `op`.
HookOps(op) == { i \in 1 .. Len(hookLog) : hookLog[i].op = op }

\* C23: however many times run was called in the process, one panic makes
\* the hook perform each restoring operation exactly once and call the
\* original hook exactly once, every step with the info of that panic.
C23_HookIdempotent ==
    hookLog # << >> =>
        /\ Cardinality(HookOps("disable_raw_mode")) = 1
        /\ Cardinality(HookOps("LeaveAlternateScreen")) = 1
        /\ Cardinality(HookOps("original_hook")) = 1
        /\ \A i \in 1 .. Len(hookLog) : hookLog[i].info = hookLog[1].info

\* The events of this build that produce a message.
Sendable(e) == e.class # "Paste" \/ pasteFeature

\* The payload value an event is delivered with.
PayloadOf(e) ==
    CASE e.class = "FocusGained" -> "Gained"
      [] e.class = "FocusLost"   -> "Lost"
      [] OTHER                   -> e.data

\* C24: during a run, the messages the event thread has sent are, one for
\* one and in the order read, the events it has read (dropped paste events
\* aside): a key, mouse, resize, focus-gained or focus-lost event is sent
\* as one Msg of payload type Key, Mouse, Resize, Focus (Gained) or Focus
\* (Lost) that carries the event's data, and the channel hands them to the
\* driver in that order.
C24_OneMsgPerEvent ==
    LET kept == SelectSeq(evLog, Sendable) IN
    /\ Len(sent) = Len(kept)
    /\ sent = heads \o chan
    /\ \A i \in 1 .. Len(kept) :
            kept[i].class # "Paste" =>
                /\ sent[i].type = ClassType(kept[i].class)
                /\ sent[i].data = PayloadOf(kept[i])

\* A mouse event, a focus-lost event and a key were read and sent.
C24_Witness ==
    /\ Len(evLog) = 3
    /\ evLog[1].class = "Mouse"
    /\ evLog[2].class = "FocusLost"
    /\ evLog[3].class = "Key"
    /\ Len(sent) = 3
    /\ sent[2] = MsgNew("Focus", "Lost", "term")

\* A text without its carriage returns.
StripCR(text) == SelectSeq(text, LAMBDA c : c # "\r")

\* C25: whenever the driver waits for a message, its render step before
\* the wait called view once and then issued Clear, MoveTo(0,0), Print and
\* flush, in that order and all successful; the frame it printed is the
\* text of view with every newline written as "\r\n".
C25_RenderStepOrder ==
    pc = "recv" =>
        /\ drvOps = << "view", "Clear", "MoveTo", "Print", "flush" >>
        /\ screen # None
        /\ StripCR(screen[1].text) = View(model)
        /\ \A i \in 1 .. Len(screen[1].text) :
                screen[1].text[i] = "\n" =>
                    (i > 1 /\ screen[1].text[i - 1] = "\r")

\* The driver waits after the render that followed an update.
C25_Witness ==
    /\ pc = "recv"
    /\ renders = 2
    /\ model = 1
    /\ screen[1].text = << "n", "=", "1", "\r", "\n" >>

\* C26: for every text and terminal width, Style::render computes a
\* padding that is a valid count of spaces (cols/2 - len/2 for Center,
\* cols - len for Right, never below zero) and returns the rendered string
\* without a panic, also when the text is wider than the terminal.
C26_PaddingNeverUnderflows ==
    (ret # None /\ ret[1].op = "render") =>
        /\ ret[1].pad >= 0
        /\ ret[1].fault = "none"
        /\ ret[1].rendered # None

\* C27: after any sequence of messages from the empty model, the cursor
\* of the text_input model lies between 0 and the length of its text,
\* and no call of update has panicked.
C27_CursorWithinText ==
    arg.fn = "update" =>
        /\ 0 <= arg.model.cursor
        /\ arg.model.cursor <= ByteLen(arg.model.text)
        /\ ret # None => ret[1].fault = "none"
====
